---- MODULE Spec2Model ----
(***************************************************************************)
(* Model of sdb::SqliteDb, sdb::SqliteTransaction and SqliteDb::executeBatch *)
(* (raster77/sqlitedb).  The SQL engine behind sqlite3_exec / sqlite3_step   *)
(* is an external collaborator: each call may fail, and the engine keeps     *)
(* its own transaction state (autocommit) and database content.              *)
(***************************************************************************)
EXTENDS Integers, Sequences, FiniteSets, TLC

\* ------------------------------------------------------------------ bounds
\* number of SqliteTransaction objects a behaviour constructs
MaxTxn == 2
\* number of commands that reach the connection in a behaviour
MaxLog == 4
\* placeholder count of a batch template, and length of a batch row
MaxParams == 2
\* number of rows handed to executeBatch
MaxRows == 2

Txns == 1..MaxTxn

\* SqliteTransaction::Mode
Modes == {"Deferred", "Immediate", "Exclusive"}

\* SQL a caller hands to SqliteDb::execute directly
RawSql == {"INSERT", "BEGIN", "COMMIT", "ROLLBACK"}

\* statements compiled by prepare(), and SqliteStatement objects that exist
\* over time (returned by prepare() or move-constructed)
MaxStmts == 2
MaxObjs == 3

\* columns of a prepared statement, their names (case matters) and cell values
MaxCols == 2
ColNames == {"a", "A"}

\* calls of SqliteDb::open, the database files they name and the mode argument
\* ("omitted": the default argument)
MaxOpens == 3
Paths == {"a.db", "b.db"}
OpenModes == {"READ_ONLY", "READ_WRITE", "omitted"}

\* threads that share the SqliteDb
MaxThreads == 3

\* uses a caller makes of a SqliteDb it got from open
MaxCalls == 2
Threads == 1..MaxThreads

\* the kinds of SqliteValue the batch rows are drawn from
BatchValues == {"null", "int64"}

VARIABLES
  mConnection,     \* SqliteDb::mConnection: "open" (non-null handle) or "null"
  autocommit,      \* engine: TRUE when no engine transaction is open
  committed,       \* engine: writes that are durable
  pending,         \* engine: writes made inside the open engine transaction
  life,            \* per SqliteTransaction: "unborn", "alive", "failed", "destroyed"
  mIntransaction,  \* per SqliteTransaction: SqliteTransaction::mIntransaction
  log,             \* every command that reached sqlite3_exec, in order
  raised,          \* the exception the last operation let escape to its caller
  lastOp,          \* the operation performed last
  bpc,             \* executeBatch: position of the running call
  paramCount,      \* executeBatch: sqlite3_bind_parameter_count of the template
  rows,            \* executeBatch: the rows argument
  rowIdx,          \* executeBatch: index of the row of the range-for loop
  idx,             \* executeBatch: the local idx (next 1-based position)
  bindings,        \* engine: current bindings of the compiled statement
  calls,           \* engine calls made on behalf of executeBatch, in order
  executed,        \* engine: the bindings each successful sqlite3_step ran with
  stmt,            \* the statement behind a SqliteStatement returned by prepare()
  stmtOp,          \* the last call on that SqliteStatement and how it ended
  objs,            \* SqliteStatement objects: the handle each holds, and if it is alive
  finalized,       \* per statement handle: how often sqlite3_finalize was called on it
  dbLife,          \* the SqliteDb object: "alive" or "destroyed" ("unborn": open
                   \* has not returned it yet)
  closeCalls,      \* how often sqlite3_close_v2 was called on the connection handle
  mMutex,          \* SqliteDb::mMutex: the thread that holds it, 0 when free
  tpc,             \* per thread: where it is inside prepare() or execute()
  tcall,           \* per thread: the member function it is in
  traised,         \* per thread: what its last call left with
  tstmt,           \* per thread in executeBatch: the handle of its statement (0: none)
                   \* and how many rows it has stepped
  extLoading,      \* engine: extension loading is enabled on the connection
  extCalls,        \* engine calls made by the last loadExtension, in order
  errorCode,       \* errorCode() of the exception in raised, 0 when there is none
  table,           \* engine: the rows the last INSERT steps wrote, oldest first
  files,           \* file system: the database files that exist
  conns,           \* engine: the handles sqlite3_open_v2 has produced
  openOp           \* the last SqliteDb::open call and how it ended

engineVars == <<autocommit, committed, pending>>
txnVars == <<mConnection, autocommit, committed, pending, life, mIntransaction,
             log, raised, errorCode, lastOp>>
batchVars == <<bpc, paramCount, rows, rowIdx, idx, bindings, calls, executed>>
stmtVars == <<stmt, stmtOp>>
ownVars == <<objs, finalized, dbLife, closeCalls>>
threadVars == <<mMutex, tpc, tcall, traised, tstmt>>
extVars == <<extLoading, extCalls>>
rowVars == <<table>>
openVars == <<files, conns, openOp>>
restVars == <<rowVars, openVars>>
auxVars == <<stmtVars, ownVars, threadVars, extVars, restVars>>
vars == <<mConnection, autocommit, committed, pending, life, mIntransaction,
          log, raised, lastOp, bpc, paramCount, rows, rowIdx, idx, bindings,
          calls, executed, stmt, stmtOp, objs, finalized, dbLife, closeCalls,
          mMutex, tpc, tcall, traised, tstmt, extLoading, extCalls, errorCode, table,
          files, conns, openOp>>

IsSqliteException(exc) ==
  exc \in {"SqliteException", "SqliteDbException", "SqliteStatementException",
           "SqliteTransactionException"}

\* SqliteDb::setCacheSize: the limits of the argument
MIN_CACHE_KB == 0
MAX_CACHE_KB == 2000000

\* std::size_t arguments setCacheSize is called with: the limits, their
\* neighbours, and a value far above (where a negative int converts to)
CacheSizes == {MIN_CACHE_KB, MIN_CACHE_KB + 1, MAX_CACHE_KB - 1, MAX_CACHE_KB,
               MAX_CACHE_KB + 1, MAX_CACHE_KB * 1000}

\* std::format("PRAGMA cache_size = {}", static_cast<std::int64_t>(sizeKb))
CacheSizeSql(sizeKb) == "PRAGMA cache_size = " \o ToString(sizeKb)

PragmaSql == {CacheSizeSql(k) : k \in CacheSizes}

\* ----------------------------------------------------------------- engine
\* the numeric value of the engine's result codes
ResultCode(rc) ==
  CASE rc = "SQLITE_OK" -> 0
    [] rc = "SQLITE_ERROR" -> 1
    [] rc = "SQLITE_BUSY" -> 5
    [] rc = "SQLITE_NOMEM" -> 7
    [] rc = "SQLITE_CANTOPEN" -> 14
    [] rc = "SQLITE_CONSTRAINT" -> 19
    [] rc = "SQLITE_MISUSE" -> 21
    [] rc = "SQLITE_ROW" -> 100
    [] OTHER -> 101

SqlKind(sql) ==
  CASE sql \in {"BEGIN", "BEGIN DEFERRED;", "BEGIN EXCLUSIVE;", "BEGIN IMMEDIATE;"}
         -> "begin"
    [] sql = "COMMIT" -> "commit"
    [] sql = "ROLLBACK" -> "rollback"
    [] sql \in PragmaSql -> "pragma"
    [] OTHER -> "write"

\* result code of sqlite3_exec: the engine refuses a BEGIN inside a
\* transaction and a COMMIT or ROLLBACK outside one; any call may also fail
\* for a reason of the engine's own (fault).
sqlite3_exec(sql, fault) ==
  LET k == SqlKind(sql) IN
  IF k = "begin" /\ ~autocommit THEN "SQLITE_ERROR"
  ELSE IF k \in {"commit", "rollback"} /\ autocommit THEN "SQLITE_ERROR"
  ELSE IF fault THEN "SQLITE_BUSY"
  ELSE "SQLITE_OK"

\* identity of the next successful write
NextWrite == 1 + Cardinality({i \in 1..Len(log) : log[i].w # 0})

\* what a command does to the engine's transaction state and content
EngineApply(sql, rc) ==
  LET k == SqlKind(sql) IN
  IF rc # "SQLITE_OK" THEN UNCHANGED engineVars
  ELSE CASE k = "begin" ->
              /\ autocommit' = FALSE
              /\ UNCHANGED <<committed, pending>>
         [] k = "commit" ->
              /\ autocommit' = TRUE
              /\ committed' = committed \cup pending
              /\ pending' = {}
         [] k = "rollback" ->
              /\ autocommit' = TRUE
              /\ pending' = {}
              /\ UNCHANGED committed
         [] k = "pragma" -> UNCHANGED engineVars
         [] OTHER ->
              /\ IF autocommit
                   THEN committed' = committed \cup {NextWrite} /\ UNCHANGED pending
                   ELSE pending' = pending \cup {NextWrite} /\ UNCHANGED committed
              /\ UNCHANGED autocommit

\* ---------------------------------------------------------------- SqliteDb
isOpen == mConnection # "null"

\* SqliteDb::execute after checkConnection: the sqlite3_exec call
DbExecute(sql, by, rc) ==
  /\ log' = Append(log, [sql |-> sql, by |-> by, rc |-> rc,
                         w |-> IF SqlKind(sql) = "write" /\ rc = "SQLITE_OK"
                                 THEN NextWrite ELSE 0])
  /\ EngineApply(sql, rc)

\* SqliteDb::execute: rc != SQLITE_OK throws SqliteDbException
ExecuteThrows(rc) == IF rc # "SQLITE_OK" THEN "SqliteDbException" ELSE "none"

\* SqliteDb::checkConnection
CheckConnectionThrows == IF mConnection = "null" THEN "SqliteDbException" ELSE "none"

\* SqliteDb::execute as a whole: the exception it leaves with ("none": returns)
ExecuteExc(sql, fault) ==
  IF CheckConnectionThrows # "none" THEN CheckConnectionThrows
  ELSE ExecuteThrows(sqlite3_exec(sql, fault))

\* SqliteDb::execute as a whole: its effect on the connection
ExecuteCall(sql, by, fault) ==
  IF CheckConnectionThrows # "none" THEN UNCHANGED <<engineVars, log>>
  ELSE DbExecute(sql, by, sqlite3_exec(sql, fault))

Last(s) == s[Len(s)]

Op(op, t, active, issued) == [op |-> op, t |-> t, active |-> active, issued |-> issued]

\* db.execute(sql) called directly by the user of the connection
Execute(sql) ==
  /\ bpc = "idle"
  /\ Len(log) < MaxLog
  /\ \E fault \in BOOLEAN :
       /\ ExecuteCall(sql, 0, fault)
       /\ raised' = ExecuteExc(sql, fault)
       /\ errorCode' = 0
  /\ lastOp' = Op("execute", 0, FALSE, CheckConnectionThrows = "none")
  /\ UNCHANGED <<mConnection, life, mIntransaction, batchVars, auxVars>>

\* faulty variant: a range test that turns the upper limit away
CacheSizeArgumentExclusive(sizeKb) ==
  IF sizeKb < MIN_CACHE_KB THEN "std::invalid_argument"
  ELSE IF sizeKb >= MAX_CACHE_KB THEN "std::invalid_argument"
  ELSE "none"

\* SqliteDb::setCacheSize: the two range tests
CacheSizeArgument(sizeKb) ==
  IF sizeKb < MIN_CACHE_KB THEN "std::invalid_argument"
  ELSE IF sizeKb > MAX_CACHE_KB THEN "std::invalid_argument"
  ELSE "none"

\* SqliteDb::setCacheSize
SetCacheSize(sizeKb) ==
  /\ bpc = "idle"
  /\ Len(log) < MaxLog
  /\ IF CacheSizeArgument(sizeKb) # "none"
       THEN /\ raised' = CacheSizeArgument(sizeKb)
            /\ errorCode' = 0
            /\ lastOp' = Op("setCacheSize", sizeKb, FALSE, FALSE)
            /\ UNCHANGED <<engineVars, log>>
       ELSE /\ \E fault \in BOOLEAN :
                 /\ ExecuteCall(CacheSizeSql(sizeKb), 0, fault)
                 /\ raised' = ExecuteExc(CacheSizeSql(sizeKb), fault)
                 /\ errorCode' = 0
            /\ lastOp' = Op("setCacheSize", sizeKb, FALSE, CheckConnectionThrows = "none")
  /\ UNCHANGED <<mConnection, life, mIntransaction, batchVars, auxVars>>

\* sqlite3_enable_load_extension(conn, 1): the function only switches a flag
\* of the connection and can fail for nothing but the handle it is given.
\* loadExtension does not test mConnection: with the null handle the call is
\* refused (SQLITE_MISUSE) or dereferences the null pointer.
EnableOutcomes ==
  IF mConnection = "null" THEN {"SQLITE_MISUSE", "crash"} ELSE {"SQLITE_OK"}

\* faulty variant: the failure is raised first, the guard is never reached
ThrowBeforeGuard(rc) ==
  IF rc # "SQLITE_OK" THEN <<"throw">> ELSE <<"enable(0)">>

\* loadExtension after sqlite3_load_extension returned rc:
\* disableExtensionGuard(), then the test of rc
GuardThenResult(rc) ==
  IF rc # "SQLITE_OK" THEN <<"enable(0)", "throw">> ELSE <<"enable(0)">>

\* the flag of the connection after the calls in es, the last one deciding
RECURSIVE FlagAfterCalls(_, _)
FlagAfterCalls(flag, es) ==
  IF es = <<>> THEN flag
  ELSE FlagAfterCalls(CASE Head(es) = "enable(1):SQLITE_OK" -> TRUE
                        [] Head(es) = "enable(0)" -> FALSE
                        [] OTHER -> flag,
                      Tail(es))

\* the second argument of the SqliteDbException loadExtension throws: none
\* (0) for the missing file, result for a failed enable and a failed load
ThrownCode(es) ==
  CASE es[1] = "exists:no" -> 0
    [] es[2] # "enable(1):SQLITE_OK" -> ResultCode("SQLITE_MISUSE")
    [] OTHER -> ResultCode("SQLITE_ERROR")

\* SqliteDb::loadExtension; libraryExists is std::filesystem::exists(libraryPath)
LoadExtension(libraryExists) ==
  /\ bpc = "idle"
  /\ \E es \in
         IF ~libraryExists THEN {<<"exists:no", "throw">>}
         ELSE UNION {
           IF en = "crash" THEN {<<"exists:yes", "enable(1):crash">>}
           ELSE IF en # "SQLITE_OK" THEN {<<"exists:yes", "enable(1):" \o en, "throw">>}
           ELSE {<<"exists:yes", "enable(1):SQLITE_OK", "load:" \o rc>> \o GuardThenResult(rc)
                   : rc \in {"SQLITE_OK", "SQLITE_ERROR"}}
           : en \in EnableOutcomes} :
       /\ extCalls' = es
       /\ extLoading' = FlagAfterCalls(extLoading, es)
       /\ raised' = CASE Last(es) = "throw" -> "SqliteDbException"
                      [] Last(es) = "enable(1):crash" -> "crash"
                      [] OTHER -> "none"
       /\ errorCode' = IF Last(es) = "throw" THEN ThrownCode(es) ELSE 0
  /\ lastOp' = Op("loadExtension", 0, FALSE, FALSE)
  /\ UNCHANGED <<mConnection, engineVars, life, mIntransaction, log, batchVars,
                 stmtVars, ownVars, threadVars, restVars>>

\* SqliteConnectionDeleter on the connection pointer of a SqliteDb
SqliteConnectionDeleter(conn, n) == IF conn # "null" THEN n + 1 ELSE n

\* faulty variant: every mode opens read-write and creates
OpenFlagsAlwaysCreate(mode) == {"SQLITE_OPEN_READWRITE", "SQLITE_OPEN_CREATE"}

\* SqliteDb::open: the switch over mode (the default argument is READ_WRITE)
OpenFlags(mode) ==
  CASE mode = "READ_ONLY" -> {"SQLITE_OPEN_READONLY"}
    [] OTHER -> {"SQLITE_OPEN_READWRITE", "SQLITE_OPEN_CREATE"}

\* result of sqlite3_open_v2 on a path of a writable directory: a file that
\* is missing is created when SQLITE_OPEN_CREATE is given, refused otherwise
sqlite3_open_v2(path, flags) ==
  IF path \in files \/ "SQLITE_OPEN_CREATE" \in flags
    THEN "SQLITE_OK" ELSE "SQLITE_CANTOPEN"

\* SqliteDb::open: result != SQLITE_OK throws SqliteDbException
OpenThrows(rc) == IF rc # "SQLITE_OK" THEN "SqliteDbException" ELSE "none"

OpenFrame ==
  UNCHANGED <<mConnection, engineVars, life, mIntransaction, log, lastOp,
              batchVars, stmtVars, ownVars, threadVars, extVars, rowVars>>

\* SqliteDb::open(filename, mode). The engine hands out a handle (rawDb)
\* whether it succeeds or not; only a successful open wraps it in the
\* SqliteConnectionPtr of the SqliteDb it returns.
OpenCall(path, mode) ==
  LET rc == sqlite3_open_v2(path, OpenFlags(mode)) IN
  /\ conns' = Append(conns, [path |-> path, mode |-> mode, rc |-> rc,
                             owned |-> OpenThrows(rc) = "none", closed |-> 0])
  /\ files' = IF rc = "SQLITE_OK" /\ path # ":memory:" THEN files \cup {path} ELSE files
  /\ openOp' = [path |-> path, mode |-> mode, rc |-> rc, exc |-> OpenThrows(rc),
                db |-> IF OpenThrows(rc) = "none" THEN "open" ELSE "none"]
  /\ raised' = OpenThrows(rc)
  /\ errorCode' = 0

\* a call of open whose result the caller does not keep
Open(path, mode) ==
  /\ bpc = "idle"
  /\ Len(conns) < MaxOpens
  /\ OpenCall(path, mode)
  /\ OpenFrame

\* rawDb after sqlite3_open_v2 returned rc: a handle, also when the open failed
RawDb(rc) == IF rc \in {"SQLITE_OK", "SQLITE_CANTOPEN"} THEN "open" ELSE "null"

\* faulty variant: a constructor that does not take the pointer it is given
SqliteDbDropsConnection(connection) == "null"

\* SqliteDb::SqliteDb(SqliteConnectionPtr connection): mConnection(std::move(connection))
SqliteDb(connection) == connection

\* SqliteDb::open as the only way to a SqliteDb: the private constructor runs
\* on the handle of a successful sqlite3_open_v2, a failed open returns nothing
OpenReturns(path, mode) ==
  /\ bpc = "idle"
  /\ dbLife = "unborn"
  /\ Len(conns) < MaxOpens
  /\ OpenCall(path, mode)
  /\ IF OpenThrows(sqlite3_open_v2(path, OpenFlags(mode))) = "none"
       THEN /\ mConnection' = SqliteDb(RawDb(sqlite3_open_v2(path, OpenFlags(mode))))
            /\ dbLife' = "alive"
       ELSE UNCHANGED <<mConnection, dbLife>>
  /\ UNCHANGED <<engineVars, life, mIntransaction, log, lastOp, batchVars, stmtVars,
                 objs, finalized, closeCalls, threadVars, extVars, rowVars>>

\* SqliteDb::createInMemory
CreateInMemory == OpenReturns(":memory:", "READ_WRITE")

\* the SqliteDb that open call i returned is destroyed (std::unique_ptr<SqliteDb>)
DestroyOpened(i) ==
  /\ bpc = "idle"
  /\ i \in DOMAIN conns
  /\ conns[i].owned /\ conns[i].closed = 0
  /\ conns' = [conns EXCEPT ![i].closed = SqliteConnectionDeleter("open", @)]
  /\ UNCHANGED <<files, openOp, raised, errorCode>>
  /\ OpenFrame

\* ------------------------------------------------------- SqliteTransaction
\* faulty variant: a constructor that takes no notice of the mode
BeginSqlOfNoMode(mode) == "BEGIN IMMEDIATE;"

\* the mode the constructor receives: Mode mode = Mode::Immediate when the
\* caller gives none ("omitted")
ModeArgument(mode) == IF mode = "omitted" THEN "Immediate" ELSE mode

\* the lambda of the constructor that picks the BEGIN statement
BeginSql(mode) ==
  CASE mode = "Deferred" -> "BEGIN DEFERRED;"
    [] mode = "Exclusive" -> "BEGIN EXCLUSIVE;"
    [] OTHER -> "BEGIN IMMEDIATE;"

\* faulty variant: the constructor without its isOpen() test
CtorOpenCheckMissing == "none"

\* constructor: if (!sqliteDb.isOpen()) throw SqliteTransactionException
CtorOpenCheck == IF ~isOpen THEN "SqliteTransactionException" ELSE "none"

\* constructor: sqliteDb.execute(sql) stands in no try block
CtorPropagates(exc) == exc

\* SqliteTransaction::SqliteTransaction; a constructor that throws leaves no
\* object behind ("failed") and its destructor never runs
Construct(t, mode) ==
  /\ bpc = "idle"
  /\ life[t] = "unborn"
  /\ \A u \in Txns : u < t => life[u] # "unborn"
  /\ IF CtorOpenCheck # "none"
       THEN /\ raised' = CtorOpenCheck
            /\ errorCode' = 0
            /\ life' = [life EXCEPT ![t] = "failed"]
            /\ lastOp' = Op("ctor", t, FALSE, FALSE)
            /\ UNCHANGED <<engineVars, log, mIntransaction>>
       ELSE /\ Len(log) < MaxLog
            /\ \E fault \in BOOLEAN :
                 LET exc == CtorPropagates(ExecuteExc(BeginSql(mode), fault))
                 IN /\ ExecuteCall(BeginSql(mode), t, fault)
                    /\ raised' = exc
                    /\ errorCode' = 0
                    /\ life' = [life EXCEPT ![t] = IF exc = "none" THEN "alive"
                                                                  ELSE "failed"]
                    /\ mIntransaction' = [mIntransaction EXCEPT ![t] = (exc = "none")]
            /\ lastOp' = Op("ctor", t, FALSE, TRUE)
  /\ UNCHANGED <<mConnection, batchVars, auxVars>>

\* faulty variant: exec without its if (mIntransaction) test
ExecGuardMissing(flag) == TRUE

\* exec: if (mIntransaction)
ExecGuard(flag) == flag

\* faulty variant: mIntransaction = false placed before the execute call
FlagAfterClearedEarly(flag, exc) == FALSE

\* faulty variant: mIntransaction = false forgotten
FlagAfterNeverCleared(flag, exc) == flag

\* exec and destructor: mIntransaction = false is reached only when execute
\* did not throw
FlagAfter(flag, exc) == IF exc = "none" THEN FALSE ELSE flag

\* faulty variant: exec without its catch clause
ExecCatchMissing(exc) == exc

\* exec: catch (SqliteException& e) { throw SqliteTransactionException(e.what()); }
ExecCatch(exc) == IF IsSqliteException(exc) THEN "SqliteTransactionException" ELSE exc

\* SqliteTransaction::exec
TxnExec(t, sql, op) ==
  /\ bpc = "idle"
  /\ life[t] = "alive"
  /\ IF ExecGuard(mIntransaction[t])
       THEN /\ Len(log) < MaxLog
            /\ \E fault \in BOOLEAN :
                 LET exc == ExecuteExc(sql, fault)
                 IN /\ ExecuteCall(sql, t, fault)
                    /\ mIntransaction' =
                         [mIntransaction EXCEPT ![t] = FlagAfter(mIntransaction[t], exc)]
                    /\ raised' = ExecCatch(exc)
                    /\ errorCode' = 0
            /\ lastOp' = Op(op, t, mIntransaction[t], TRUE)
       ELSE /\ raised' = "none"
            /\ errorCode' = 0
            /\ lastOp' = Op(op, t, mIntransaction[t], FALSE)
            /\ UNCHANGED <<engineVars, log, mIntransaction>>
  /\ UNCHANGED <<mConnection, life, batchVars, auxVars>>

\* SqliteTransaction::commit
Commit(t) == TxnExec(t, "COMMIT", "commit")

\* SqliteTransaction::rollback
Rollback(t) == TxnExec(t, "ROLLBACK", "rollback")

\* faulty variant: a destructor that never rolls back
DtorGuardNever(flag) == FALSE

\* destructor: if (mIntransaction)
DtorGuard(flag) == flag

\* destructor: the command of the implicit rollback
DtorSql == "ROLLBACK"

\* faulty variant: a destructor without its catch (...) clause
DtorCatchMissing(exc) == exc

\* destructor: catch (...) { }
DtorCatch(exc) == "none"

\* SqliteTransaction::~SqliteTransaction
Destroy(t) ==
  /\ bpc = "idle"
  /\ life[t] = "alive"
  /\ IF DtorGuard(mIntransaction[t])
       THEN /\ Len(log) < MaxLog
            /\ \E fault \in BOOLEAN :
                 LET exc == ExecuteExc(DtorSql, fault)
                 IN /\ ExecuteCall(DtorSql, t, fault)
                    /\ mIntransaction' =
                         [mIntransaction EXCEPT ![t] = FlagAfter(mIntransaction[t], exc)]
                    /\ raised' = DtorCatch(exc)
                    /\ errorCode' = 0
            /\ lastOp' = Op("dtor", t, mIntransaction[t], TRUE)
       ELSE /\ raised' = "none"
            /\ errorCode' = 0
            /\ lastOp' = Op("dtor", t, mIntransaction[t], FALSE)
            /\ UNCHANGED <<engineVars, log, mIntransaction>>
  /\ life' = [life EXCEPT ![t] = "destroyed"]
  /\ UNCHANGED <<mConnection, batchVars, auxVars>>

\* ------------------------------------------------- SqliteDb::executeBatch
\* the rows a caller may hand to executeBatch
RowSet == UNION {[1..n -> BatchValues] : n \in 0..MaxParams}
RowsSet == UNION {[1..n -> RowSet] : n \in 0..MaxRows}

Call(fn, index, value, rc) == [fn |-> fn, index |-> index, value |-> value, rc |-> rc]

\* SqliteValueBinder::bind: the statement call a value of each kind is dispatched to
BinderCall(v) ==
  CASE v = "null" -> "sqlite3_bind_null"
    [] v = "int64" -> "sqlite3_bind_int64"
    [] v = "double" -> "sqlite3_bind_double"
    [] v = "text" -> "sqlite3_bind_text"
    [] OTHER -> "sqlite3_bind_blob"

\* faulty variant: an index check without the upper limit
checkParameterIndexLowOnly(index, count) ==
  IF index < 1 THEN "SqliteStatementException" ELSE "none"

\* SqliteStatement::checkParameterIndex, count being getParameterCount()
checkParameterIndex(index, count) ==
  IF index < 1 THEN "SqliteStatementException"
  ELSE IF index > count THEN "SqliteStatementException"
  ELSE "none"

\* checkParameterIndex on the statement of executeBatch
CheckParameterIndexThrows(index) == checkParameterIndex(index, paramCount)

\* SqliteStatement::bind / bindNull: result != SQLITE_OK throws
BindThrows(rc) == IF rc # "SQLITE_OK" THEN "SqliteStatementException" ELSE "none"

\* faulty variant: step() that reports no failure
StepThrowsNothing(rc) == "none"

\* SqliteStatement::step: SQLITE_ROW and SQLITE_DONE return, anything else throws
StepThrows(rc) ==
  IF rc = "SQLITE_ROW" THEN "none"
  ELSE IF rc = "SQLITE_DONE" THEN "none"
  ELSE "SqliteStatementException"

\* SqliteDb::prepare: result != SQLITE_OK throws SqliteDbException
PrepareThrows(rc) == IF rc # "SQLITE_OK" THEN "SqliteDbException" ELSE "none"

\* executeBatch: std::size_t idx = 1
IdxStart == 1

\* executeBatch: idx++
IdxNext(i) == i + 1

\* faulty variant: a loop that leaves out the last row
MoreRowsButLast(i, rs) == i < Len(rs)

\* executeBatch: the range-for over rows has a row left
MoreRows(i, rs) == i <= Len(rs)

\* faulty variant: a clearBindings that leaves the parameters as they are
UnboundKeepsValues(P) ==
  IF DOMAIN bindings = 1..P THEN bindings ELSE [i \in 1..P |-> "null"]

\* sqlite3_clear_bindings: every parameter is NULL again
Unbound(P) == [i \in 1..P |-> "null"]

\* SqliteStatementDeleter, run when stmt leaves the scope of executeBatch
Finalize == Call("sqlite3_finalize", 0, "null", "SQLITE_OK")

\* executeBatch: the head of the range-for loop, entered with row index i
LoopHead(i, rs, cs) ==
  IF MoreRows(i, rs)
    THEN /\ rowIdx' = i
         /\ idx' = IdxStart
         /\ bpc' = IF Len(rs[i]) = 0 THEN "step" ELSE "bind"
         /\ calls' = cs
    ELSE /\ rowIdx' = i
         /\ idx' = idx
         /\ bpc' = "done"
         /\ calls' = Append(cs, Finalize)

\* executeBatch leaves with an exception: stmt is destroyed on the way out
BatchThrow(exc, cs) ==
  /\ raised' = exc
  /\ errorCode' = 0
  /\ bpc' = "failed"
  /\ calls' = Append(cs, Finalize)

\* faulty variant: a batch that undoes its work through the connection
BatchRollsBack ==
  /\ ExecuteCall("ROLLBACK", 0, FALSE)
  /\ UNCHANGED <<life, mIntransaction>>

\* executeBatch calls prepare, bind, step, reset and clearBindings only: no
\* statement goes through execute(), nothing touches a SqliteTransaction
NoTransactionBoundary == UNCHANGED <<engineVars, life, mIntransaction, log>>

\* executeBatch up to the loop: the null test, prepare(sql), the binder
BatchBegin(P, rs) ==
  /\ bpc = "idle"
  /\ lastOp' = Op("executeBatch", 0, FALSE, FALSE)
  /\ rows' = rs
  /\ IF mConnection = "null"
       THEN /\ raised' = "SqliteDbException"
            /\ errorCode' = 0
            /\ bpc' = "failed"
            /\ UNCHANGED <<paramCount, rowIdx, idx, bindings, calls>>
       ELSE \E rc \in {"SQLITE_OK", "SQLITE_ERROR"} :
              LET cs == Append(calls, Call("sqlite3_prepare_v2", 0, "null", rc)) IN
              IF PrepareThrows(rc) # "none"
                THEN /\ raised' = PrepareThrows(rc)
                     /\ errorCode' = 0
                     /\ bpc' = "failed"
                     /\ calls' = cs
                     /\ UNCHANGED <<paramCount, rowIdx, idx, bindings>>
                ELSE /\ raised' = "none"
                     /\ errorCode' = 0
                     /\ paramCount' = P
                     /\ bindings' = Unbound(P)
                     /\ LoopHead(1, rs, cs)
  /\ NoTransactionBoundary
  /\ UNCHANGED <<mConnection, auxVars, executed>>

\* executeBatch: binder.bind(static_cast<int>(idx++), v) for one value of the row
BatchBind ==
  /\ bpc = "bind"
  /\ LET v == rows[rowIdx][idx] IN
     IF CheckParameterIndexThrows(idx) # "none"
       THEN /\ BatchThrow(CheckParameterIndexThrows(idx), calls)
            /\ idx' = IdxNext(idx)
            /\ UNCHANGED bindings
       ELSE \E rc \in {"SQLITE_OK", "SQLITE_NOMEM"} :
              LET cs == Append(calls, Call(BinderCall(v), idx, v, rc)) IN
              /\ idx' = IdxNext(idx)
              /\ IF BindThrows(rc) # "none"
                   THEN /\ BatchThrow(BindThrows(rc), cs)
                        /\ UNCHANGED bindings
                   ELSE /\ bindings' = [bindings EXCEPT ![idx] = v]
                        /\ bpc' = IF idx' > Len(rows[rowIdx]) THEN "step" ELSE "bind"
                        /\ calls' = cs
                        /\ UNCHANGED <<raised, errorCode>>
  /\ NoTransactionBoundary
  /\ UNCHANGED <<mConnection, auxVars, lastOp,
                 paramCount, rows, rowIdx, executed>>

\* executeBatch: stmt.step()
BatchStep ==
  /\ bpc = "step"
  /\ \E rc \in {"SQLITE_DONE", "SQLITE_ROW", "SQLITE_CONSTRAINT"} :
       LET cs == Append(calls, Call("sqlite3_step", 0, "null", rc)) IN
       IF StepThrows(rc) # "none"
         THEN /\ BatchThrow(StepThrows(rc), cs)
              /\ UNCHANGED executed
         ELSE /\ executed' = Append(executed, bindings)
              /\ bpc' = "reset"
              /\ calls' = cs
              /\ UNCHANGED <<raised, errorCode>>
  /\ NoTransactionBoundary
  /\ UNCHANGED <<mConnection, auxVars, lastOp,
                 paramCount, rows, rowIdx, idx, bindings>>

\* executeBatch: stmt.reset()
BatchReset ==
  /\ bpc = "reset"
  /\ calls' = Append(calls, Call("sqlite3_reset", 0, "null", "SQLITE_OK"))
  /\ bpc' = "clear"
  /\ NoTransactionBoundary
  /\ UNCHANGED <<mConnection, auxVars, raised, errorCode, lastOp,
                 paramCount, rows, rowIdx, idx, bindings, executed>>

\* executeBatch: stmt.clearBindings(), then the next turn of the loop
BatchClearBindings ==
  /\ bpc = "clear"
  /\ bindings' = Unbound(paramCount)
  /\ LoopHead(rowIdx + 1, rows,
              Append(calls, Call("sqlite3_clear_bindings", 0, "null", "SQLITE_OK")))
  /\ NoTransactionBoundary
  /\ UNCHANGED <<mConnection, auxVars, raised, errorCode, lastOp,
                 paramCount, rows, executed>>

\* --------------------------------------------------------- SqliteStatement
\* no statement has been prepared yet
NoStatement == [state |-> "none", P |-> 0, cols |-> <<>>, bound |-> <<>>, row |-> <<>>]

StmtOp(op, arg, exc, engine, value) ==
  [op |-> op, arg |-> arg, exc |-> exc, engine |-> engine, value |-> value]

ColsSet == UNION {[1..n -> ColNames] : n \in 0..MaxCols}

\* the bind overloads of SqliteStatement, bindNull among them
Overloads == {"int", "int64", "double", "string", "cstr", "blob", "null"}

\* the engine call each overload makes
EngineBind(ov) ==
  CASE ov = "int" -> "sqlite3_bind_int"
    [] ov = "int64" -> "sqlite3_bind_int64"
    [] ov = "double" -> "sqlite3_bind_double"
    [] ov \in {"string", "cstr"} -> "sqlite3_bind_text"
    [] ov = "blob" -> "sqlite3_bind_blob"
    [] OTHER -> "sqlite3_bind_null"

\* what the engine then holds for the parameter
StoredAs(ov) ==
  CASE EngineBind(ov) \in {"sqlite3_bind_int", "sqlite3_bind_int64"} -> "integer"
    [] EngineBind(ov) = "sqlite3_bind_double" -> "real"
    [] EngineBind(ov) = "sqlite3_bind_text" -> "text"
    [] EngineBind(ov) = "sqlite3_bind_blob" -> "blob"
    [] OTHER -> "null"

\* a value of the caller: its kind and its content, a sequence of elements
\* (the characters of a text, the bytes of a blob, the one numeral of a number)
Val(kind, v) == [kind |-> kind, v |-> v]

\* the kind of value each overload takes
KindOf(ov) ==
  CASE ov \in {"string", "cstr"} -> "text"
    [] OTHER -> ov

\* the values tried for each overload; a std::string and a blob carry their
\* length and may be empty or hold a zero, a const char* ends at its first zero
ValuesOf(ov) ==
  CASE ov \in {"int", "int64"} -> {<<"-7">>}
    [] ov = "double" -> {<<"1.5">>}
    [] ov = "string" -> {<<>>, <<"a">>, <<"a", "NUL", "b">>}
    [] ov = "cstr" -> {<<>>, <<"a">>}
    [] ov = "blob" -> {<<>>, <<"NUL", "ff">>}
    [] OTHER -> {<<>>}

\* what a reader of a zero-terminated string sees of t: value.c_str() passed
\* with length -1, and std::string(const char*)
RECURSIVE CStr(_)
CStr(t) ==
  IF t = <<>> \/ Head(t) = "NUL" THEN <<>> ELSE <<Head(t)>> \o CStr(Tail(t))

\* a parameter or column value in the engine: its storage class, its content,
\* and (history) the caller's value it was bound from
Cell(type, v, from) == [type |-> type, v |-> v, from |-> from]
NullCell == Cell("null", <<>>, Val("null", <<>>))

\* every parameter of a statement starts as NULL
UnboundCells(P) == [i \in 1..P |-> NullCell]

\* what the engine can hold after bind(index, v) of overload ov succeeds:
\* text is read up to the first zero, a blob is passed as data() and size(),
\* and data() of an empty vector may be null, which binds NULL
BindStores(ov, v) ==
  CASE EngineBind(ov) = "sqlite3_bind_text" ->
         {Cell(StoredAs(ov), CStr(v), Val(KindOf(ov), v))}
    [] EngineBind(ov) = "sqlite3_bind_blob" /\ v = <<>> ->
         {Cell(StoredAs(ov), v, Val(KindOf(ov), v)),
          Cell("null", v, Val(KindOf(ov), v))}
    [] OTHER -> {Cell(StoredAs(ov), v, Val(KindOf(ov), v))}

\* the cells a result row is drawn from when its content is left open
Cells == {NullCell} \cup BindStores("int64", <<"-7">>) \cup BindStores("cstr", <<"a">>)

\* the result codes sqlite3_bind_* can give: a statement that was stepped and
\* not reset refuses a bind
BindCodes ==
  IF stmt.state \in {"row", "done", "failed"} THEN {"SQLITE_MISUSE"}
  ELSE {"SQLITE_OK", "SQLITE_NOMEM"}

\* SqliteDb::prepare on the calling thread: checkConnection, sqlite3_prepare_v2,
\* and on success a SqliteStatement that owns the new handle
Prepare(P, cols) ==
  /\ bpc = "idle" /\ dbLife = "alive"
  /\ Len(finalized) < MaxStmts /\ Len(objs) < MaxObjs
  /\ IF CheckConnectionThrows # "none"
       THEN /\ raised' = CheckConnectionThrows
            /\ errorCode' = 0
            /\ stmtOp' = StmtOp("prepare", 0, CheckConnectionThrows, FALSE, "none")
            /\ UNCHANGED <<stmt, objs, finalized>>
       ELSE \E rc \in {"SQLITE_OK", "SQLITE_ERROR"} :
              /\ raised' = PrepareThrows(rc)
              /\ errorCode' = 0
              /\ stmtOp' = StmtOp("prepare", 0, PrepareThrows(rc), TRUE, "none")
              /\ IF PrepareThrows(rc) # "none"
                   THEN UNCHANGED <<stmt, objs, finalized>>
                   ELSE /\ stmt' = [state |-> "ready", P |-> P, cols |-> cols,
                                    bound |-> UnboundCells(P), row |-> <<>>]
                        /\ finalized' = Append(finalized, 0)
                        /\ objs' = Append(objs, [h |-> Len(finalized) + 1, live |-> TRUE])
  /\ UNCHANGED <<mConnection, engineVars, life, mIntransaction, log, lastOp,
                 batchVars, dbLife, closeCalls, threadVars, extVars, restVars>>

StmtFrame ==
  UNCHANGED <<mConnection, engineVars, life, mIntransaction, log, lastOp,
              batchVars, ownVars, threadVars, extVars, restVars>>

\* SqliteStatement::bind(index, value) of overload ov with value v, or
\* bindNull(index)
Bind(ov, index, v) ==
  /\ bpc = "idle"
  /\ stmt.state # "none"
  /\ IF checkParameterIndex(index, stmt.P) # "none"
       THEN /\ stmtOp' = StmtOp("bind", index, checkParameterIndex(index, stmt.P),
                                FALSE, Val(KindOf(ov), v))
            /\ raised' = checkParameterIndex(index, stmt.P)
            /\ errorCode' = 0
            /\ UNCHANGED stmt
       ELSE \E rc \in BindCodes :
              /\ stmtOp' = StmtOp("bind", index, BindThrows(rc), TRUE, Val(KindOf(ov), v))
              /\ raised' = BindThrows(rc)
              /\ errorCode' = 0
              /\ IF rc = "SQLITE_OK"
                   THEN \E c \in BindStores(ov, v) :
                          stmt' = [stmt EXCEPT !.bound[index] = c]
                   ELSE UNCHANGED stmt
  /\ StmtFrame

\* the last keep rows of a table
Kept(t, keep) == IF Len(t) > keep THEN SubSeq(t, Len(t) - keep + 1, Len(t)) ELSE t

\* faulty variant: a step that runs with the values of the row before
WrittenRowOfLastStep ==
  IF table # <<>> THEN table[Len(table)] ELSE [i \in 1..MaxParams |-> NullCell]

\* the row a statement without columns (an INSERT) writes when it completes:
\* its parameters as they are bound at that step, the other columns NULL
WrittenRow == [i \in 1..MaxParams |-> IF i <= stmt.P THEN stmt.bound[i] ELSE NullCell]

\* the rows of the table, which a query over all its columns can deliver
TableRows == {table[k] : k \in DOMAIN table}

\* faulty variant: a step that reports a row whenever the engine does not
\* report the end
StepResultRowUnlessDone(rc) ==
  IF rc = "SQLITE_DONE" THEN Val("bool", <<"false">>) ELSE Val("bool", <<"true">>)

\* what step() gives its caller for result code rc: true, false, or the
\* message of the exception, which spells the code out
StepResult(rc) ==
  CASE rc = "SQLITE_ROW" -> Val("bool", <<"true">>)
    [] rc = "SQLITE_DONE" -> Val("bool", <<"false">>)
    [] OTHER -> Val("message", <<"Step failed with error code: ", ToString(ResultCode(rc))>>)

\* SqliteStatement::step on a statement the caller holds: the engine answers
\* with a row (one of avail, for a statement that has columns), with the end,
\* or with an error; an INSERT that ends has written its row
StmtStep(avail, keep) ==
  /\ bpc = "idle"
  /\ stmt.state # "none"
  /\ \E rc \in {"SQLITE_ROW", "SQLITE_DONE", "SQLITE_CONSTRAINT"} :
       /\ rc = "SQLITE_ROW" => Len(stmt.cols) >= 1 /\ avail # {}
       /\ stmtOp' = StmtOp("step", 0, StepThrows(rc), TRUE, StepResult(rc))
       /\ raised' = StepThrows(rc)
       /\ errorCode' = 0
       /\ IF rc = "SQLITE_ROW"
            THEN \E r \in avail : stmt' = [stmt EXCEPT !.state = "row", !.row = r]
            ELSE stmt' = [stmt EXCEPT !.row = <<>>,
                            !.state = IF rc = "SQLITE_DONE" THEN "done" ELSE "failed"]
       /\ table' = IF rc = "SQLITE_DONE" /\ stmt.cols = <<>>
                     THEN Kept(Append(table, WrittenRow), keep)
                     ELSE table
  /\ UNCHANGED <<mConnection, engineVars, life, mIntransaction, log, lastOp,
                 batchVars, ownVars, threadVars, extVars, openVars>>

\* SqliteStatement::reset: sqlite3_reset, its result ignored; the bindings stay
StmtReset ==
  /\ bpc = "idle"
  /\ stmt.state # "none"
  /\ stmt' = [stmt EXCEPT !.state = "ready", !.row = <<>>]
  /\ stmtOp' = StmtOp("reset", 0, "none", TRUE, "none")
  /\ raised' = "none"
  /\ errorCode' = 0
  /\ StmtFrame

\* SqliteStatement::clearBindings: sqlite3_clear_bindings, every parameter NULL
StmtClearBindings ==
  /\ bpc = "idle"
  /\ stmt.state # "none"
  /\ stmt' = [stmt EXCEPT !.bound = UnboundCells(stmt.P)]
  /\ stmtOp' = StmtOp("clearBindings", 0, "none", TRUE, "none")
  /\ raised' = "none"
  /\ errorCode' = 0
  /\ StmtFrame

\* the getters that take a column index, and the optional variants
IndexGetters == {"getInt", "getInt64", "getDouble", "getString", "getBlob", "isNull"}
OptionalGetters == {"getOptionalInt", "getOptionalInt64", "getOptionalDouble",
                    "getOptionalString"}

\* the overload of getter g that takes a column name
NameGetter(g) == "name:" \o g

\* SqliteStatement::checkColumnIndex, count being getColumnCount()
checkColumnIndex(column, count) ==
  IF column < 0 \/ column >= count THEN "SqliteStatementException" ELSE "none"

\* faulty variant: a search that keeps the last column of that name
RECURSIVE getColumnIndexLast(_, _, _)
getColumnIndexLast(names, name, i) ==
  IF i >= Len(names) THEN [found |-> FALSE, index |-> 0]
  ELSE LET rest == getColumnIndexLast(names, name, i + 1) IN
       IF rest.found THEN rest
       ELSE IF names[i + 1] = name THEN [found |-> TRUE, index |-> i]
       ELSE rest

\* SqliteStatement::getColumnIndex: the loop from column i on; not found is
\* the throw after the loop
RECURSIVE getColumnIndex(_, _, _)
getColumnIndex(names, name, i) ==
  IF i >= Len(names) THEN [found |-> FALSE, index |-> 0]
  ELSE IF names[i + 1] = name THEN [found |-> TRUE, index |-> i]
  ELSE getColumnIndex(names, name, i + 1)

\* what sqlite3_column_* can read in a column: the cell of the current row,
\* anything when the statement is not on a row
ReadCells(column) ==
  IF stmt.state = "row" THEN {stmt.row[column + 1]} ELSE Cells

\* sqlite3_column_int, _int64, _double, _text, _blob on cell c, as the getter
\* of that kind hands it on: a cell of the matching storage class as it is
\* (text through a zero-terminated string), NULL as zero or empty, any other
\* class converted by the engine
ColumnAs(kind, c) ==
  CASE c.type = "null" -> Val(kind, IF kind \in {"text", "blob"} THEN <<>> ELSE <<"0">>)
    [] kind \in {"int", "int64"} /\ c.type = "integer" -> Val(kind, c.v)
    [] kind = "double" /\ c.type = "real" -> Val(kind, c.v)
    [] kind = "text" /\ c.type = "text" -> Val(kind, CStr(c.v))
    [] kind = "blob" /\ c.type \in {"blob", "text"} -> Val(kind, c.v)
    [] OTHER -> Val(kind, <<"cast", c.type>> \o c.v)

\* the kind of value getter g returns
GetterKind(g) ==
  CASE g \in {"getInt", "getOptionalInt"} -> "int"
    [] g \in {"getInt64", "getOptionalInt64"} -> "int64"
    [] g \in {"getDouble", "getOptionalDouble"} -> "double"
    [] g \in {"getString", "getOptionalString"} -> "text"
    [] OTHER -> "blob"

\* the value getter g makes of cell c; an optional getter asks isNull first
GetterResult(g, c) ==
  CASE g = "isNull" -> Val("bool", IF c.type = "null" THEN <<"true">> ELSE <<"false">>)
    [] g \in OptionalGetters /\ c.type = "null" -> Val("nullopt", <<>>)
    [] OTHER -> ColumnAs(GetterKind(g), c)

\* getter g on column: checkColumnIndex, then the read; recorded as call op(arg)
GetColumn(op, arg, g, column) ==
  IF checkColumnIndex(column, Len(stmt.cols)) # "none"
    THEN stmtOp' = StmtOp(op, arg, checkColumnIndex(column, Len(stmt.cols)), FALSE,
                          Val("message", <<"Column index out of range">>))
    ELSE \E c \in ReadCells(column) :
           stmtOp' = StmtOp(op, arg, "none", TRUE, GetterResult(g, c))

\* getInt(column) ... isNull(column), getOptionalInt(column) ...
GetByIndex(g, column) ==
  /\ bpc = "idle"
  /\ stmt.state # "none"
  /\ GetColumn(g, column, g, column)
  /\ raised' = stmtOp'.exc
  /\ errorCode' = 0
  /\ UNCHANGED stmt
  /\ StmtFrame

\* getInt(columnName) ... isNull(columnName): getX(getColumnIndex(columnName))
GetByName(g, name) ==
  /\ bpc = "idle"
  /\ stmt.state # "none"
  /\ LET at == getColumnIndex(stmt.cols, name, 0) IN
     IF ~at.found
       THEN stmtOp' = StmtOp(NameGetter(g), name, "SqliteStatementException", FALSE,
                             Val("message", <<"Column not found">>))
       ELSE GetColumn(NameGetter(g), name, g, at.index)
  /\ raised' = stmtOp'.exc
  /\ errorCode' = 0
  /\ UNCHANGED stmt
  /\ StmtFrame

\* ------------------------------------------------- ownership of the handles
\* faulty variant: a deleter that lets go of the handle without finalizing it
DeleterForgets(h, fin) == fin

\* SqliteStatementDeleter on the pointer a unique_ptr gives up; unique_ptr
\* runs its deleter on a non-null pointer only, and the deleter tests again
SqliteStatementDeleter(h, fin) ==
  IF h # 0 THEN [fin EXCEPT ![h] = @ + 1] ELSE fin

OwnFrame ==
  UNCHANGED <<mConnection, engineVars, life, mIntransaction, log, lastOp, raised, errorCode,
              batchVars, stmt, threadVars, extVars, restVars>>

\* SqliteStatement(SqliteStatement&&): the implicit move constructor moves
\* the unique_ptr mStatement, which leaves the source holding nullptr
MoveConstruct(src) ==
  /\ bpc = "idle"
  /\ src \in DOMAIN objs /\ objs[src].live
  /\ Len(objs) < MaxObjs
  /\ objs' = Append([objs EXCEPT ![src].h = 0], [h |-> objs[src].h, live |-> TRUE])
  /\ stmtOp' = StmtOp("move", 0, "none", FALSE, "none")
  /\ UNCHANGED <<finalized, dbLife, closeCalls>>
  /\ OwnFrame

\* operator=(SqliteStatement&&): unique_ptr move assignment; the target gives
\* up the handle it held (deleter), takes the source's, the source holds nullptr
MoveAssign(dst, src) ==
  /\ bpc = "idle"
  /\ src \in DOMAIN objs /\ objs[src].live
  /\ dst \in DOMAIN objs /\ objs[dst].live
  /\ dst # src
  /\ finalized' = SqliteStatementDeleter(objs[dst].h, finalized)
  /\ objs' = [objs EXCEPT ![dst].h = objs[src].h, ![src].h = 0]
  /\ stmtOp' = StmtOp("assign", 0, "none", FALSE, "none")
  /\ UNCHANGED <<dbLife, closeCalls>>
  /\ OwnFrame

\* ~SqliteStatement (implicit): destroys mStatement
DestroyStatement(o) ==
  /\ bpc = "idle"
  /\ o \in DOMAIN objs /\ objs[o].live
  /\ finalized' = SqliteStatementDeleter(objs[o].h, finalized)
  /\ objs' = [objs EXCEPT ![o].live = FALSE]
  /\ stmtOp' = StmtOp("destroy", 0, "none", FALSE, "none")
  /\ UNCHANGED <<dbLife, closeCalls>>
  /\ OwnFrame

\* ~SqliteDb (defaulted): destroys mConnection
DestroyDb ==
  /\ bpc = "idle"
  /\ dbLife = "alive"
  /\ dbLife' = "destroyed"
  /\ closeCalls' = SqliteConnectionDeleter(mConnection, closeCalls)
  /\ stmtOp' = StmtOp("close", 0, "none", FALSE, "none")
  /\ UNCHANGED <<objs, finalized>>
  /\ OwnFrame

\* ------------------------------------- threads inside prepare() and execute()
\* calls of fn that have passed checkConnection and have not made their engine call
Pending(fn) == Cardinality({th \in Threads : tcall[th] = fn /\ tpc[th] \in {"lock", "engine"}})

\* faulty variant: a guard that does not wait for the mutex
LockTakenAnyway(m) == TRUE

\* std::lock_guard<std::mutex> lock(mMutex): the constructor returns once the
\* mutex is free
LockAcquirable(m) == m = 0

ThreadFrame ==
  UNCHANGED <<mConnection, life, mIntransaction, lastOp, raised, errorCode, batchVars,
              stmtOp, dbLife, closeCalls, extVars, restVars>>

\* a thread that is not inside executeBatch
NoBatch == [h |-> 0, rows |-> 0]

\* threads inside sqlite3_step for a row of their batch
Stepping == Cardinality({th \in Threads : tpc[th] = "step"})

\* faulty variant: a lock that executeBatch keeps for its rows
HeldThroughBatch(th) == IF tcall[th] = "executeBatch" THEN th ELSE 0

\* faulty variant: a lock that is not given back when the call throws
KeptOnFailure(th) == IF traised[th] # "none" THEN th ELSE 0

\* what the connection mutex holds once prepare() or execute() has returned to
\* thread th: the lock_guard is local to these two functions
ReleasedOnReturn(th) == 0

\* a thread calls prepare(), execute() or executeBatch(): the null test of
\* checkConnection (for executeBatch its own, then that of prepare), before
\* the lock
ThreadCall(th, fn) ==
  /\ tpc[th] = "idle" /\ bpc = "idle" /\ dbLife = "alive"
  /\ fn = "execute" => Len(log) + Pending(fn) < MaxLog
  /\ fn \in {"prepare", "executeBatch"} =>
       Len(finalized) + Pending("prepare") + Pending("executeBatch") < MaxStmts
  /\ IF CheckConnectionThrows # "none"
       THEN /\ traised' = [traised EXCEPT ![th] = CheckConnectionThrows]
            /\ UNCHANGED <<tpc, tcall>>
       ELSE /\ traised' = [traised EXCEPT ![th] = "none"]
            /\ tpc' = [tpc EXCEPT ![th] = "lock"]
            /\ tcall' = [tcall EXCEPT ![th] = fn]
  /\ UNCHANGED <<mMutex, tstmt, engineVars, log, stmt, objs, finalized>>
  /\ ThreadFrame

\* the lock_guard of prepare() / execute() is constructed
ThreadLock(th) ==
  /\ tpc[th] = "lock"
  /\ LockAcquirable(mMutex)
  /\ mMutex' = th
  /\ tpc' = [tpc EXCEPT ![th] = "engine"]
  /\ UNCHANGED <<tcall, traised, tstmt, engineVars, log, stmt, objs, finalized>>
  /\ ThreadFrame

\* sqlite3_prepare_v2 / sqlite3_exec runs and its result is tested; the
\* statement that prepare() returns inside executeBatch is a local of the batch
ThreadEngine(th) ==
  /\ tpc[th] = "engine"
  /\ tpc' = [tpc EXCEPT ![th] = "result"]
  /\ IF tcall[th] = "execute"
       THEN \E fault \in BOOLEAN :
              /\ DbExecute("INSERT", 0, sqlite3_exec("INSERT", fault))
              /\ traised' = [traised EXCEPT
                               ![th] = ExecuteThrows(sqlite3_exec("INSERT", fault))]
              /\ UNCHANGED <<stmt, objs, finalized, tstmt>>
       ELSE \E rc \in {"SQLITE_OK", "SQLITE_ERROR"} :
              /\ traised' = [traised EXCEPT ![th] = PrepareThrows(rc)]
              /\ IF PrepareThrows(rc) # "none"
                   THEN UNCHANGED <<stmt, objs, finalized, tstmt>>
                   ELSE /\ IF tcall[th] = "executeBatch"
                             THEN /\ tstmt' = [tstmt EXCEPT
                                                 ![th] = [h |-> Len(finalized) + 1,
                                                          rows |-> 0]]
                                  /\ UNCHANGED stmt
                             ELSE /\ stmt' = [state |-> "ready", P |-> 0, cols |-> <<>>,
                                              bound |-> UnboundCells(0), row |-> <<>>]
                                  /\ UNCHANGED tstmt
                        /\ finalized' = Append(finalized, 0)
                        /\ objs' = Append(objs, [h |-> Len(finalized) + 1, live |-> TRUE])
              /\ UNCHANGED <<engineVars, log>>
  /\ UNCHANGED <<mMutex, tcall>>
  /\ ThreadFrame

\* the call returns or throws: the lock_guard is destroyed on the way out;
\* executeBatch goes on to its loop when its prepare() has returned
ThreadReturn(th) ==
  /\ tpc[th] = "result"
  /\ mMutex' = ReleasedOnReturn(th)
  /\ IF tcall[th] = "executeBatch" /\ traised[th] = "none"
       THEN /\ tpc' = [tpc EXCEPT ![th] = "row"]
            /\ UNCHANGED tcall
       ELSE /\ tpc' = [tpc EXCEPT ![th] = "idle"]
            /\ tcall' = [tcall EXCEPT ![th] = "none"]
  /\ UNCHANGED <<traised, tstmt, engineVars, log, stmt, objs, finalized>>
  /\ ThreadFrame

\* executeBatch leaves its scope on thread th: the statement is finalized
ThreadBatchLeaves(th) ==
  /\ finalized' = SqliteStatementDeleter(tstmt[th].h, finalized)
  /\ objs' = [o \in DOMAIN objs |->
                IF objs[o].h = tstmt[th].h THEN [objs[o] EXCEPT !.live = FALSE]
                ELSE objs[o]]
  /\ tpc' = [tpc EXCEPT ![th] = "idle"]
  /\ tcall' = [tcall EXCEPT ![th] = "none"]

\* executeBatch on thread th has bound the values of its next row and calls
\* stmt.step(): bind and step take no lock
ThreadRowStep(th) ==
  /\ tpc[th] = "row"
  /\ tstmt[th].rows < MaxRows
  /\ tpc' = [tpc EXCEPT ![th] = "step"]
  /\ UNCHANGED <<mMutex, tcall, traised, tstmt, engineVars, log, stmt, objs, finalized>>
  /\ ThreadFrame

\* sqlite3_step of that row returns: reset, clearBindings and the next turn of
\* the loop, or the exception of step() (the rows written are counted, their
\* content is not kept here)
ThreadRowStepped(th) ==
  /\ tpc[th] = "step"
  /\ \E rc \in {"SQLITE_DONE", "SQLITE_CONSTRAINT"} :
       /\ traised' = [traised EXCEPT ![th] = StepThrows(rc)]
       /\ IF StepThrows(rc) # "none"
            THEN /\ ThreadBatchLeaves(th)
                 /\ tstmt' = [tstmt EXCEPT ![th] = NoBatch]
            ELSE /\ tpc' = [tpc EXCEPT ![th] = "row"]
                 /\ tstmt' = [tstmt EXCEPT ![th].rows = @ + 1]
                 /\ UNCHANGED <<tcall, objs, finalized>>
  /\ UNCHANGED <<mMutex, engineVars, log, stmt>>
  /\ ThreadFrame

\* the range of rows is at its end: executeBatch returns
ThreadBatchEnd(th) ==
  /\ tpc[th] = "row"
  /\ ThreadBatchLeaves(th)
  /\ tstmt' = [tstmt EXCEPT ![th] = NoBatch]
  /\ UNCHANGED <<mMutex, traised, engineVars, log, stmt>>
  /\ ThreadFrame

\* --------------------------------------------------------- specifications
\* everything but the SqliteDb object itself
InitRest ==
  /\ autocommit = TRUE
  /\ committed = {}
  /\ pending = {}
  /\ life = [t \in Txns |-> "unborn"]
  /\ mIntransaction = [t \in Txns |-> FALSE]
  /\ log = <<>>
  /\ raised = "none"
  /\ lastOp = Op("none", 0, FALSE, FALSE)
  /\ bpc = "idle"
  /\ paramCount = 0
  /\ rows = <<>>
  /\ rowIdx = 0
  /\ idx = 0
  /\ bindings = <<>>
  /\ calls = <<>>
  /\ executed = <<>>
  /\ stmt = NoStatement
  /\ stmtOp = StmtOp("none", 0, "none", FALSE, "none")
  /\ objs = <<>>
  /\ finalized = <<>>
  /\ closeCalls = 0
  /\ mMutex = 0
  /\ tpc = [th \in Threads |-> "idle"]
  /\ tcall = [th \in Threads |-> "none"]
  /\ traised = [th \in Threads |-> "none"]
  /\ tstmt = [th \in Threads |-> NoBatch]
  /\ extLoading = FALSE
  /\ extCalls = <<>>
  /\ errorCode = 0
  /\ table = <<>>
  /\ files = {}
  /\ conns = <<>>
  /\ openOp = [path |-> "none", mode |-> "none", rc |-> "none", exc |-> "none",
               db |-> "none"]

\* a SqliteDb exists, with or without a connection
Init ==
  /\ mConnection \in {"open", "null"}
  /\ dbLife = "alive"
  /\ InitRest

\* no SqliteDb exists yet: the caller still has to call open or createInMemory
InitBeforeOpen ==
  /\ mConnection = "null"
  /\ dbLife = "unborn"
  /\ InitRest

Next ==
  \/ \E t \in Txns, mode \in Modes \cup {"omitted"} : Construct(t, ModeArgument(mode))
  \/ \E t \in Txns : Commit(t)
  \/ \E t \in Txns : Rollback(t)
  \/ \E t \in Txns : Destroy(t)
  \/ \E sql \in RawSql : Execute(sql)

Spec == Init /\ [][Next]_vars

NextBatch ==
  \/ bpc = "idle" /\ \E P \in 0..MaxParams, rs \in RowsSet : BatchBegin(P, rs)
  \/ BatchBind
  \/ BatchStep
  \/ BatchReset
  \/ BatchClearBindings

SpecBatch == Init /\ [][NextBatch]_vars

\* a batch run by a caller that may have opened a SqliteTransaction first
NextInTxn ==
  \/ log = <<>> /\ \E t \in Txns, mode \in Modes : Construct(t, mode)
  \/ NextBatch

SpecInTxn == Init /\ [][NextInTxn]_vars

\* the life of the handles: statements that are prepared, moved and destroyed
\* by their holder, the connection that goes with its SqliteDb, or a batch
NextRelease ==
  \/ Prepare(0, <<>>)
  \/ \E src \in 1..MaxObjs : MoveConstruct(src)
  \/ \E dst \in 1..MaxObjs, src \in 1..MaxObjs : MoveAssign(dst, src)
  \/ \E o \in 1..MaxObjs : DestroyStatement(o)
  \/ DestroyDb
  \/ stmtOp.op = "none" /\ NextBatch

SpecRelease == Init /\ [][NextRelease]_vars

\* a caller that prepares statements and binds their parameters by index
NextBind ==
  \/ \E P \in 0..MaxParams : Prepare(P, <<>>)
  \/ \E ov \in Overloads, index \in (-1)..(MaxParams + 1) : Bind(ov, index, CHOOSE v \in ValuesOf(ov) : TRUE)

SpecBind == Init /\ [][NextBind]_vars

\* a program that opens database files and lets go of the connections
NextOpen ==
  \/ \E path \in Paths, mode \in OpenModes : Open(path, mode)
  \/ \E i \in 1..MaxOpens : DestroyOpened(i)

SpecOpen == Init /\ [][NextOpen]_vars

\* a caller that configures the connection
NextConfig ==
  \/ \E sizeKb \in CacheSizes : SetCacheSize(sizeKb)
  \/ \E libraryExists \in BOOLEAN : LoadExtension(libraryExists)

SpecConfig == Init /\ [][NextConfig]_vars

\* the columns of a query over the whole table
TableColumns == [i \in 1..MaxParams |-> "a"]

\* the getters that read a value, by kind of value
TypedGetters == {"getInt64", "getDouble", "getString", "getBlob"}

\* index is the only parameter that is or will be bound to a value
OnlyBound(index) ==
  \A j \in DOMAIN stmt.bound : j # index => stmt.bound[j] = NullCell

\* a caller that writes rows with an INSERT (bind, step, reset, bind again) and
\* reads them back with a query and the getters
NextRows ==
  \/ \E P \in 1..MaxParams : Prepare(P, <<>>)
  \/ Prepare(0, TableColumns)
  \/ \E ov \in Overloads, index \in 1..MaxParams :
       \E v \in ValuesOf(ov) : OnlyBound(index) /\ Bind(ov, index, v)
  \/ StmtStep(TableRows, 1)
  \/ StmtReset
  \/ StmtClearBindings
  \/ \E g \in TypedGetters \cup OptionalGetters \cup {"isNull"},
        column \in 0..(MaxParams - 1) :
       stmt.state = "row" /\ GetByIndex(g, column)

SpecRows == Init /\ [][NextRows]_vars

\* the overloads a caller uses who binds values of different kinds in turn
RebindOverloads == {"int64", "cstr", "null"}
RebindValues(ov) == IF ov = "null" THEN ValuesOf(ov) ELSE ValuesOf(ov) \ {<<>>}

\* a caller that runs one INSERT several times: bind, step, reset, and again,
\* with or without clearBindings; the last two rows written are kept
NextRebind ==
  \/ \E P \in 1..MaxParams : Prepare(P, <<>>)
  \/ \E ov \in RebindOverloads, index \in 1..MaxParams :
       \E v \in RebindValues(ov) :
         OnlyBound(index) /\ Bind(ov, index, v)
  \/ StmtStep({}, 2)
  \/ StmtReset
  \/ StmtClearBindings

SpecRebind == Init /\ [][NextRebind]_vars

\* a caller that prepares statements, steps them and reads the columns
NextGet ==
  \/ \E cols \in ColsSet : Prepare(0, cols)
  \/ StmtStep([1..Len(stmt.cols) -> Cells], 0)
  \/ \E g \in IndexGetters \cup OptionalGetters, column \in (-1)..MaxCols :
       GetByIndex(g, column)
  \/ \E g \in IndexGetters, name \in ColNames \cup {"b"} : GetByName(g, name)

SpecGet == Init /\ [][NextGet]_vars

\* threads that share the SqliteDb and call prepare() and execute() on it
NextThreads ==
  \/ \E th \in Threads, fn \in {"prepare", "execute"} : ThreadCall(th, fn)
  \/ \E th \in Threads : ThreadLock(th)
  \/ \E th \in Threads : ThreadEngine(th)
  \/ \E th \in Threads : ThreadReturn(th)


SpecThreads == Init /\ [][NextThreads]_vars

\* the SqliteDb is alive and the caller has not used it MaxCalls times yet
\* (counted: commands sent, statements compiled, a loadExtension)
UsesLeft ==
  /\ dbLife = "alive"
  /\ Len(log) + Len(finalized) + (IF extCalls = <<>> THEN 0 ELSE 1) < MaxCalls

\* a caller that has nothing but the public interface: it obtains the SqliteDb
\* from open or createInMemory and then uses it until it destroys it
NextPublic ==
  \/ \E mode \in OpenModes : OpenReturns("a.db", mode)
  \/ CreateInMemory
  \/ UsesLeft /\ Execute("INSERT")
  \/ UsesLeft /\ \E t \in Txns : Construct(t, ModeArgument("omitted"))
  \/ UsesLeft /\ Prepare(0, <<>>)
  \/ UsesLeft /\ SetCacheSize(MAX_CACHE_KB)
  \/ UsesLeft /\ \E libraryExists \in BOOLEAN : LoadExtension(libraryExists)
  \/ DestroyDb

SpecPublic == InitBeforeOpen /\ [][NextPublic]_vars

\* the threads of a run under a fair scheduler
Callers == 1..(MaxThreads - 1)

NextCallers ==
  \/ \E th \in Callers, fn \in {"prepare", "execute"} : ThreadCall(th, fn)
  \/ \E th \in Callers : ThreadLock(th)
  \/ \E th \in Callers : ThreadEngine(th)
  \/ \E th \in Callers : ThreadReturn(th)

\* a fair scheduler: a thread that can run its engine call or return does so,
\* and a thread that finds the mutex free again and again gets it
FairThreads ==
  \A th \in Callers :
    /\ SF_vars(ThreadLock(th))
    /\ WF_vars(ThreadEngine(th))
    /\ WF_vars(ThreadReturn(th))

SpecThreadsFair == Init /\ [][NextCallers]_vars /\ FairThreads

\* what each thread calls when one thread runs batches on the connection and
\* the others prepare and execute
CallsOf(th) == IF th = 1 THEN {"executeBatch"} ELSE {"prepare", "execute"}

NextBatchThreads ==
  \/ \E th \in Threads : \E fn \in CallsOf(th) : ThreadCall(th, fn)
  \/ \E th \in Threads : ThreadLock(th)
  \/ \E th \in Threads : ThreadEngine(th)
  \/ \E th \in Threads : ThreadReturn(th)
  \/ \E th \in Threads : ThreadRowStep(th)
  \/ \E th \in Threads : ThreadRowStepped(th)
  \/ \E th \in Threads : ThreadBatchEnd(th)

SpecBatchThreads == Init /\ [][NextBatchThreads]_vars

\* ================================================================= claims

IsFinal(e) == SqlKind(e.sql) \in {"commit", "rollback"}
IsControl(e) == SqlKind(e.sql) \in {"begin", "commit", "rollback"}

\* positions of the COMMIT and ROLLBACK commands object t sent to the connection
FinalBy(t) == {i \in DOMAIN log : log[i].by = t /\ IsFinal(log[i])}
FinalOkBy(t) == {i \in FinalBy(t) : log[i].rc = "SQLITE_OK"}

\* position of the successful BEGIN of object t (0: none)
BeginIdx(t) ==
  IF \E i \in DOMAIN log : log[i].by = t /\ SqlKind(log[i].sql) = "begin"
                                       /\ log[i].rc = "SQLITE_OK"
    THEN CHOOSE i \in DOMAIN log : log[i].by = t /\ SqlKind(log[i].sql) = "begin"
                                                /\ log[i].rc = "SQLITE_OK"
    ELSE 0

\* the commands that were in the log before the last operation ran
Before == IF lastOp.issued THEN 1..(Len(log) - 1) ELSE 1..Len(log)

\* object t has just been destroyed, no commit() or rollback() of it having succeeded
DestroyedUnfinished(t) ==
  /\ lastOp.op = "dtor" /\ lastOp.t = t
  /\ BeginIdx(t) # 0
  /\ \A i \in Before : ~(i \in FinalOkBy(t))

\* the successful writes made in the lifetime of the object t just destroyed
WritesDuring(t) == {log[i].w : i \in {j \in Before : j > BeginIdx(t) /\ log[j].w # 0}}

\* a BEGIN, COMMIT or ROLLBACK not sent by t succeeded in the lifetime of t
ForeignControl(t) ==
  \E i \in Before : /\ i > BeginIdx(t) /\ log[i].by # t
                    /\ IsControl(log[i]) /\ log[i].rc = "SQLITE_OK"

DtorIssuedRollback(t) ==
  /\ lastOp.issued /\ Len(log) > 0
  /\ Last(log).by = t /\ Last(log).sql = "ROLLBACK"

C2_FinishedCallsAreNoOps ==
  [][\A t \in Txns :
       (/\ life[t] = "alive" /\ FinalOkBy(t) # {}
        /\ lastOp'.t = t /\ lastOp'.op \in {"commit", "rollback", "dtor"})
       => /\ log' = log
          /\ raised' = "none"
          /\ ~mIntransaction'[t]
          /\ UNCHANGED engineVars]_vars

C2_Witness ==
  \E t \in Txns :
    /\ life[t] = "alive" /\ FinalOkBy(t) # {}
    /\ lastOp.t = t /\ lastOp.op \in {"commit", "rollback"}
    /\ ~lastOp.active /\ ~lastOp.issued
    /\ raised = "none"

\* C3 (as stated): over the lifetime of one transaction at most one COMMIT or
\* ROLLBACK reaches the connection, failed commands included.
C3_AtMostOneFinalizingCommand ==
  \A t \in Txns : Cardinality(FinalBy(t)) <= 1

\* C3 (amended): over the lifetime of one transaction at most one COMMIT or
\* ROLLBACK sent through the object succeeds.
C3_AtMostOneFinalizingSuccess ==
  \A t \in Txns : Cardinality(FinalOkBy(t)) <= 1

C3_Witness ==
  \E t \in Txns :
    /\ Cardinality(FinalBy(t)) >= 2
    /\ Cardinality(FinalOkBy(t)) = 1
    /\ life[t] = "destroyed"

\* the call op of object t, made while t was active, has sent sql to the connection
IssuedNow(t, sql) ==
  /\ Len(log') = Len(log) + 1
  /\ log' = Append(log, Last(log'))
  /\ Last(log').by = t /\ Last(log').sql = sql

C7_FailedConstruction ==
  [][/\ \A t \in Txns :
          (life[t] = "unborn" /\ lastOp'.t = t /\ lastOp'.op = "ctor")
          => /\ ~isOpen => /\ raised' = "SqliteTransactionException"
                           /\ log' = log
                           /\ life'[t] = "failed"
                           /\ UNCHANGED engineVars
             /\ (isOpen /\ Len(log') > 0 /\ Last(log').rc # "SQLITE_OK")
                  => /\ raised' # "none"
                     /\ life'[t] = "failed"
     /\ \A t \in Txns :
          life[t] = "failed" => /\ life'[t] = "failed"
                                /\ ~mIntransaction'[t]
                                /\ {i \in DOMAIN log' : log'[i].by = t /\ IsFinal(log'[i])} = {}
    ]_vars

C7_Witness ==
  \E t \in Txns : \E i \in DOMAIN log :
    /\ life[t] = "failed"
    /\ log[i].by = t /\ SqlKind(log[i].sql) = "begin" /\ log[i].rc # "SQLITE_OK"
    /\ i < Len(log)
    /\ FinalBy(t) = {}

\* C8 (as stated): a failed BEGIN of the constructor, a failed COMMIT of
\* commit() and a failed ROLLBACK of rollback() each raise
\* SqliteTransactionException.
C8_BoundaryFailuresAreTransactionErrors ==
  (/\ lastOp.op \in {"ctor", "commit", "rollback"}
   /\ lastOp.issued /\ Last(log).rc # "SQLITE_OK")
  => raised = "SqliteTransactionException"

\* the transaction objects whose inTransaction() is true
Active == {t \in Txns : life[t] = "alive" /\ mIntransaction[t]}

\* C9 (as stated): at most one transaction object of the connection has
\* inTransaction() true, and a constructor called while another object is
\* active fails.
C9_AtMostOneActive ==
  /\ Cardinality(Active) <= 1
  /\ \A t \in Txns :
       (lastOp.op = "ctor" /\ lastOp.t = t /\ Active \ {t} # {})
       => (life[t] = "failed" /\ raised # "none")

\* ---- executeBatch
IsPrepare(c) == c.fn = "sqlite3_prepare_v2"
IsStep(c) == c.fn = "sqlite3_step"
IsBind(c) == c.fn \in {"sqlite3_bind_null", "sqlite3_bind_int64", "sqlite3_bind_double",
                       "sqlite3_bind_text", "sqlite3_bind_blob"}
IsBindOrStep(c) == IsBind(c) \/ IsStep(c)

Sig(c) == <<c.fn, c.index, c.value>>

\* the bind calls of one row followed by its step, as the claim describes them
RowCalls(row) ==
  [j \in 1..(Len(row) + 1) |->
     IF j <= Len(row) THEN <<BinderCall(row[j]), j, row[j]>>
                      ELSE <<"sqlite3_step", 0, "null">>]

RECURSIVE RowsCalls(_, _)
RowsCalls(rs, k) == IF k > Len(rs) THEN <<>> ELSE RowCalls(rs[k]) \o RowsCalls(rs, k + 1)

EveryRowFits == \A k \in DOMAIN rows : Len(rows[k]) = paramCount

\* C10: executeBatch returning normally from N rows that all have P values
\* has compiled the template once and stepped N times, once per row in
\* order, each step preceded by the binds of that row's values to the
\* positions 1..P in order, and ran with exactly those values.
C10_BatchStepsEveryRow ==
  (bpc = "done" /\ EveryRowFits) =>
    /\ Cardinality({i \in DOMAIN calls : IsPrepare(calls[i])}) = 1
    /\ IsPrepare(calls[1])
    /\ Len(SelectSeq(calls, IsStep)) = Len(rows)
    /\ LET bs == SelectSeq(calls, IsBindOrStep) IN
       [i \in DOMAIN bs |-> Sig(bs[i])] = RowsCalls(rows, 1)
    /\ executed = rows

C10_Witness ==
  /\ bpc = "done" /\ EveryRowFits
  /\ Len(rows) >= 2 /\ paramCount >= 2
  /\ rows[1] # rows[2]
  /\ rows[1][1] # rows[1][2]
  /\ Len(executed) = Len(rows)

\* prepare(sql) of executeBatch has succeeded
Prepared == calls # <<>> /\ IsPrepare(calls[1]) /\ calls[1].rc = "SQLITE_OK"

\* how many times executeBatch has called sqlite3_step, and how often it succeeded
StepCalls == Len(SelectSeq(calls, IsStep))
StepOk(c) == IsStep(c) /\ c.rc \in {"SQLITE_DONE", "SQLITE_ROW"}

\* C11 (as stated): a row whose length differs from the placeholder count P,
\* shorter or longer, makes the batch fail at that row's bind step and is
\* never stepped.
C11_MismatchedRowNeverStepped ==
  /\ \A k \in DOMAIN rows :
       (Prepared /\ Len(rows[k]) # paramCount) => StepCalls < k
  /\ (Prepared /\ bpc = "done") => EveryRowFits

\* the values a statement runs with when row has been bound from position 1
\* on and the other positions are unbound
Padded(row, P) == [i \in 1..P |-> IF i <= Len(row) THEN row[i] ELSE "null"]

\* s is a prefix of t
IsPrefix(s, t) == Len(s) <= Len(t) /\ \A i \in DOMAIN s : s[i] = t[i]

RECURSIVE CallsUpTo(_, _)
CallsUpTo(rs, k) == IF k = 0 THEN <<>> ELSE CallsUpTo(rs, k - 1) \o RowCalls(rs[k])

\* C12: when executeBatch fails in the loop at row k, the failure is raised at
\* once: nothing of a later row is bound or stepped, the k-1 rows stepped
\* before keep their effect, and no command (no ROLLBACK) is sent to the
\* connection.
C12_MidBatchFailure ==
  (Prepared /\ bpc = "failed") =>
    /\ raised # "none"
    /\ rowIdx \in DOMAIN rows
    /\ Len(executed) = rowIdx - 1
    /\ \A j \in 1..(rowIdx - 1) : executed[j] = Padded(rows[j], paramCount)
    /\ Len(SelectSeq(calls, StepOk)) = rowIdx - 1
    /\ LET bs == SelectSeq(calls, IsBindOrStep) IN
       IsPrefix([i \in DOMAIN bs |-> Sig(bs[i])], CallsUpTo(rows, rowIdx))
    /\ Last(calls) = Finalize
    /\ \A i \in DOMAIN calls : calls[i].rc \notin {"SQLITE_OK", "SQLITE_DONE", "SQLITE_ROW"}
                                 => i = Len(calls) - 1
    /\ log = <<>> /\ autocommit /\ committed = {} /\ pending = {}

C12_Witness ==
  /\ Prepared /\ bpc = "failed"
  /\ rowIdx = 2 /\ Len(rows) >= 2
  /\ Len(executed) = 1
  /\ raised = "SqliteStatementException"

\* C14 (as stated): every failure of executeBatch (connection not open,
\* prepare failure, bind or step failure on a row) is a SqliteDbException.
C14_BatchThrowsDbException ==
  bpc = "failed" => raised = "SqliteDbException"

\* C13: executeBatch opens and closes no transaction: no step of it, on the
\* successful and on the failing paths, sends a command to the connection,
\* so the engine's transaction state and the flag of every SqliteTransaction
\* are after the call what they were before it.
C13_BatchKeepsTransactionState ==
  [][bpc' # "idle" =>
       /\ log' = log
       /\ autocommit' = autocommit
       /\ pending' = pending /\ committed' = committed
       /\ mIntransaction' = mIntransaction
       /\ life' = life]_vars

C13_Witness ==
  /\ bpc \in {"done", "failed"}
  /\ Prepared
  /\ Len(executed) >= 1
  /\ ~autocommit
  /\ \E t \in Txns : mIntransaction[t] /\ life[t] = "alive"
  /\ Len(log) = 1

IsFinalize(c) == c.fn = "sqlite3_finalize"

\* live SqliteStatement objects that hold handle h
Holders(h) == {o \in DOMAIN objs : objs[o].live /\ objs[o].h = h}

\* C15: exactly-once release. A statement handle is either held by exactly
\* one live SqliteStatement and not finalized, or held by none and finalized
\* exactly once, through every move; executeBatch finalizes the statement it
\* prepared exactly once when it leaves, normally or by a failure; the
\* connection handle is closed once, when its SqliteDb is destroyed.
C15_ExactlyOnceRelease ==
  /\ \A h \in DOMAIN finalized :
       \/ finalized[h] = 0 /\ Cardinality(Holders(h)) = 1
       \/ finalized[h] = 1 /\ Holders(h) = {}
  /\ Len(SelectSeq(calls, IsFinalize)) =
       (IF Prepared /\ bpc \in {"done", "failed"} THEN 1 ELSE 0)
  /\ closeCalls = (IF dbLife = "destroyed" /\ mConnection # "null" THEN 1 ELSE 0)

\* a handle that went through a move construction and a move assignment and
\* was finalized when its last holder was destroyed, after the connection
C15_Witness ==
  /\ Len(finalized) = 2 /\ finalized[1] = 1 /\ finalized[2] = 1
  /\ Len(objs) = 3
  /\ \A o \in DOMAIN objs : ~objs[o].live
  /\ \E o \in DOMAIN objs : objs[o].h = 0
  /\ dbLife = "destroyed" /\ closeCalls = 1

\* threads that are inside sqlite3_prepare_v2 or sqlite3_exec of the connection
InEngine == {th \in Threads : tpc[th] = "engine"}

\* C16: the engine calls of prepare() and execute() on one SqliteDb exclude
\* each other: in no interleaving are two threads inside the compile call or
\* the ad-hoc execute call at the same time, and the thread inside holds mMutex.
C16_EngineCallsExclusive ==
  /\ Cardinality(InEngine) <= 1
  /\ \A th \in InEngine : mMutex = th

\* one thread is inside the compile call while another, that wants to
\* execute, and a third, that wants to compile, wait for the mutex
C16_Witness ==
  \E a \in Threads, b \in Threads, c \in Threads :
    /\ tpc[a] = "engine" /\ tcall[a] = "prepare"
    /\ tpc[b] = "lock" /\ tcall[b] = "execute"
    /\ tpc[c] = "lock" /\ tcall[c] = "prepare"
    /\ Len(log) >= 1

\* C17: a bind overload or bindNull called with index < 1 or index >
\* parameterCount fails with a statement-category error, makes no engine bind
\* call and leaves every binding of the statement as it was.
C17_OutOfRangeBindRejected ==
  [][(stmtOp'.op = "bind" /\ (stmtOp'.arg < 1 \/ stmtOp'.arg > stmt.P)) =>
       /\ stmtOp'.exc = "SqliteStatementException"
       /\ raised' = "SqliteStatementException"
       /\ ~stmtOp'.engine
       /\ stmt' = stmt]_vars

\* a statement with bound parameters has rejected a bind one past the last
\* parameter
C17_Witness ==
  /\ stmtOp.op = "bind" /\ stmtOp.arg = stmt.P + 1
  /\ stmtOp.exc = "SqliteStatementException" /\ ~stmtOp.engine
  /\ stmt.P >= 2
  /\ \A i \in 1..stmt.P : stmt.bound[i].type # "null"

\* the columns of the statement that bear this name, 0-based
ColumnsNamed(name) == {i \in 0..(Len(stmt.cols) - 1) : stmt.cols[i + 1] = name}
FirstOf(S) == CHOOSE i \in S : \A j \in S : i <= j

\* C18: an index-based getter (the optional variants included) called with
\* column < 0 or column >= columnCount fails with a statement-category error;
\* a name-based getter fails with a "column not found" statement-category
\* error when no column has exactly that name, and otherwise returns what the
\* index-based getter returns for the first column of that name.
C18_GettersCheckColumn ==
  /\ (stmtOp.op \in IndexGetters \cup OptionalGetters
        /\ (stmtOp.arg < 0 \/ stmtOp.arg >= Len(stmt.cols)))
       => /\ stmtOp.exc = "SqliteStatementException"
          /\ raised = "SqliteStatementException"
  /\ \A g \in IndexGetters :
       stmtOp.op = NameGetter(g) =>
         IF ColumnsNamed(stmtOp.arg) = {}
           THEN /\ stmtOp.exc = "SqliteStatementException"
                /\ raised = "SqliteStatementException"
                /\ stmtOp.value = Val("message", <<"Column not found">>)
           ELSE /\ stmtOp.exc = "none"
                /\ stmt.state = "row" =>
                     stmtOp.value =
                       GetterResult(g, stmt.row[FirstOf(ColumnsNamed(stmtOp.arg)) + 1])

\* two columns bear the same name and hold different values; the name-based
\* getter has returned the value of the first
C18_Witness ==
  /\ stmtOp.op = NameGetter("getString")
  /\ stmt.state = "row"
  /\ Cardinality(ColumnsNamed(stmtOp.arg)) = 2
  /\ stmt.row[1].type = "text" /\ stmt.row[2].type = "integer"
  /\ stmtOp.value = Val("text", <<"a">>)

\* C19: setCacheSize(k) with k outside [0, 2000000] fails with
\* std::invalid_argument and sends nothing to the connection; with k inside,
\* the two limits included, it sends exactly one command, PRAGMA cache_size = k
\* (on a SqliteDb without a connection the command is refused by execute).
C19_CacheSizeRange ==
  [][lastOp'.op = "setCacheSize" =>
       LET k == lastOp'.t IN
       IF k < 0 \/ k > 2000000
         THEN raised' = "std::invalid_argument" /\ log' = log
         ELSE IF mConnection = "null"
           THEN raised' = "SqliteDbException" /\ log' = log
           ELSE /\ Len(log') = Len(log) + 1
                /\ SubSeq(log', 1, Len(log)) = log
                /\ Last(log').sql = "PRAGMA cache_size = " \o ToString(k)
                /\ raised' # "std::invalid_argument"]_vars

\* both limits were accepted and each produced its command
C19_Witness ==
  /\ Len(log) = 2
  /\ log[1].sql = "PRAGMA cache_size = 0" /\ log[1].rc = "SQLITE_OK"
  /\ log[2].sql = "PRAGMA cache_size = 2000000" /\ log[2].rc = "SQLITE_OK"
  /\ lastOp.op = "setCacheSize" /\ lastOp.t = 2000000
  /\ raised = "none"

IsLoad(e) == e \in {"load:SQLITE_OK", "load:SQLITE_ERROR"}
Position(es, e) == CHOOSE i \in DOMAIN es : es[i] = e

\* C20: loadExtension on a missing library file fails before any engine
\* call; otherwise there is at most one load attempt, and once it was made,
\* whatever its outcome, the disable call follows it and precedes the raise of
\* the failure, so extension loading is off when loadExtension returns.
C20_ExtensionLoadingDisabled ==
  lastOp.op = "loadExtension" =>
    /\ extCalls[1] = "exists:no" =>
         extCalls = <<"exists:no", "throw">> /\ raised = "SqliteDbException"
    /\ Len(SelectSeq(extCalls, IsLoad)) <= 1
    /\ \A i \in DOMAIN extCalls : IsLoad(extCalls[i]) =>
         /\ i + 1 \in DOMAIN extCalls /\ extCalls[i + 1] = "enable(0)"
         /\ (extCalls[i] = "load:SQLITE_ERROR") =
              (i + 2 \in DOMAIN extCalls /\ extCalls[i + 2] = "throw")
         /\ (extCalls[i] = "load:SQLITE_ERROR") = (raised = "SqliteDbException")
    /\ raised # "crash" => ~extLoading

\* a load attempt failed: the disable call was made before the raise
C20_Witness ==
  /\ lastOp.op = "loadExtension"
  /\ extCalls = <<"exists:yes", "enable(1):SQLITE_OK", "load:SQLITE_ERROR",
                  "enable(0)", "throw">>
  /\ raised = "SqliteDbException"
  /\ ~extLoading
  /\ Len(log) >= 1

C22_RoundTrip ==
  (stmt.state = "row" /\ stmtOp.exc = "none"
     /\ stmtOp.op \in TypedGetters \cup OptionalGetters \cup {"isNull"})
    => LET V == stmt.row[stmtOp.arg + 1].from IN
       /\ (V.kind = "int64" /\ stmtOp.op = "getInt64") => stmtOp.value = V
       /\ (V.kind = "double" /\ stmtOp.op = "getDouble") => stmtOp.value = V
       /\ (V.kind = "text" /\ stmtOp.op = "getString") => stmtOp.value = V
       /\ (V.kind = "blob" /\ stmtOp.op = "getBlob") => stmtOp.value = V
       /\ (V.kind = "null" /\ stmtOp.op = "isNull")
            => stmtOp.value = Val("bool", <<"true">>)
       /\ (V.kind = "null" /\ stmtOp.op \in OptionalGetters)
            => stmtOp.value = Val("nullopt", <<>>)

\* C23: when the engine call of an operation returns a result code other than
\* success, the exception raised carries that code (errorCode() is the engine's
\* result code) and the call is made once; stated for open, whose engine call
\* is sqlite3_open_v2
C23_ErrorCarriesEngineCode ==
  [][(Len(conns') > Len(conns) /\ openOp'.rc # "SQLITE_OK") =>
       /\ raised' # "none"
       /\ errorCode' = ResultCode(openOp'.rc)
       /\ Len(conns') = Len(conns) + 1]_vars

\* C24: in executeBatch each successful step is followed by reset and then
\* clearBindings before anything else is bound or stepped, so every row is
\* stepped with exactly its own values: a position the row does not bind is
\* NULL when the row is stepped, whatever the row before it bound there
C24_RowsStartUnbound ==
  /\ \A j \in DOMAIN executed : executed[j] = Padded(rows[j], paramCount)
  /\ \A i \in DOMAIN calls :
       StepOk(calls[i]) =>
         /\ (i + 1 \in DOMAIN calls => calls[i + 1].fn = "sqlite3_reset")
         /\ (i + 2 \in DOMAIN calls => calls[i + 2].fn = "sqlite3_clear_bindings")
  /\ bpc \in {"bind", "step"} =>
       \A i \in 1..paramCount : i >= idx => bindings[i] = "null"

\* a row that bound a value at position 2 was stepped, and the shorter row
\* after it was stepped with NULL there
C24_Witness ==
  /\ Len(executed) >= 2 /\ paramCount >= 2
  /\ executed[1][2] = "int64"
  /\ Len(rows[2]) < 2
  /\ executed[2][2] = "null"

C26_RowsOutsideMutex ==
  /\ \A th \in Threads : tpc[th] \in {"row", "step"} => mMutex # th
  /\ \A th \in Threads : mMutex = th <=> tpc[th] \in {"engine", "result"}

\* one thread is inside sqlite3_step for the second row of its batch while
\* another is inside sqlite3_exec, holding the mutex, and an execute() has
\* already completed
C26_Witness ==
  \E a \in Threads, b \in Threads :
    /\ tcall[a] = "executeBatch" /\ tpc[a] = "step" /\ tstmt[a].rows = 1
    /\ tcall[b] = "execute" /\ tpc[b] = "engine" /\ mMutex = b
    /\ Len(log) >= 1

\* C27: step() returns true exactly when the engine reports a row and false
\* exactly when it reports the end; on any other result it throws a
\* SqliteStatementException whose message spells out the numeric result code,
\* and it does not reset the statement: the statement stays as the failed
\* sqlite3_step left it, its bindings untouched
C27_StepOutcome ==
  [][stmtOp'.op = "step" =>
       /\ stmtOp'.engine
       /\ stmtOp'.value = Val("bool", <<"true">>)
            <=> (stmt'.state = "row" /\ stmtOp'.exc = "none")
       /\ stmtOp'.value = Val("bool", <<"false">>)
            <=> (stmt'.state = "done" /\ stmtOp'.exc = "none")
       /\ stmt'.state \notin {"row", "done"} =>
            /\ stmtOp'.exc = "SqliteStatementException"
            /\ raised' = "SqliteStatementException"
            /\ \E rc \in {"SQLITE_ERROR", "SQLITE_BUSY", "SQLITE_CONSTRAINT", "SQLITE_MISUSE"} :
                 stmtOp'.value = Val("message", <<"Step failed with error code: ",
                                                  ToString(ResultCode(rc))>>)
            /\ stmt'.state = "failed"
            /\ stmt'.bound = stmt.bound]_vars

\* a step of an INSERT with a bound value has failed with SQLITE_CONSTRAINT
\* (19): the exception names 19 and the value is still bound
C27_Witness ==
  /\ stmtOp.op = "step" /\ stmtOp.exc = "SqliteStatementException"
  /\ stmtOp.value = Val("message", <<"Step failed with error code: ", "19">>)
  /\ stmt.state = "failed"
  /\ stmt.P >= 1 /\ stmt.bound[1].type = "integer"

C29_BeginOfMode ==
  [][/\ \A t \in Txns, mode \in Modes \cup {"omitted"} :
          (isOpen /\ lastOp'.op = "ctor" /\ lastOp'.t = t
             /\ Construct(t, ModeArgument(mode))) =>
            /\ Len(log') = Len(log) + 1
            /\ SubSeq(log', 1, Len(log)) = log
            /\ \A i \in DOMAIN log : log[i].by # t
            /\ log'[Len(log')].by = t
            /\ log'[Len(log')].sql =
                 (CASE mode = "Deferred" -> "BEGIN DEFERRED;"
                    [] mode = "Exclusive" -> "BEGIN EXCLUSIVE;"
                    [] mode \in {"Immediate", "omitted"} -> "BEGIN IMMEDIATE;")
     /\ \A t \in Txns :
          Cardinality({i \in DOMAIN log' :
                         log'[i].by = t /\ SqlKind(log'[i].sql) = "begin"}) <= 1]_vars

\* an object constructed as Deferred has begun and committed, and a second,
\* constructed as Exclusive, has begun: each sent the BEGIN of its mode first
C29_Witness ==
  /\ Len(log) = 3
  /\ log[1].by = 1 /\ log[1].sql = "BEGIN DEFERRED;" /\ log[1].rc = "SQLITE_OK"
  /\ log[2].by = 1 /\ log[2].sql = "COMMIT"
  /\ log[3].by = 2 /\ log[3].sql = "BEGIN EXCLUSIVE;" /\ log[3].rc = "SQLITE_OK"
  /\ mIntransaction[2]

C31_MutexReleased ==
  /\ [](\A th \in Callers : tpc[th] \in {"idle", "lock"} => mMutex # th)
  /\ []((\A th \in Callers : tpc[th] \notin {"engine", "result"}) => mMutex = 0)
  /\ \A th \in Callers : (tpc[th] = "lock") ~> (tpc[th] = "engine")
  /\ \A th \in Callers : (tpc[th] = "engine") ~> (tpc[th] = "idle")

\* an execute() has failed and returned, and after it a thread holds the
\* mutex inside its engine call while the others wait
C31_Witness ==
  /\ Len(log) >= 1 /\ log[1].rc # "SQLITE_OK"
  /\ \E a \in Callers :
       /\ tpc[a] = "engine" /\ mMutex = a
       /\ \A b \in Callers \ {a} : tpc[b] = "lock"

\* C32: every connection handle sqlite3_open_v2 has allocated is owned by the
\* SqliteDb that open returned or has been closed, also when open failed
C32_NoHandleLeftOpen ==
  \A i \in DOMAIN conns : conns[i].owned \/ conns[i].closed >= 1

\* C33: a SqliteDb that open or createInMemory has returned holds a handle as
\* long as it lives: isOpen() is true, no operation changes the pointer, so
\* checkConnection never throws "Database not open", the constructor of a
\* SqliteTransaction never throws "No database", and no engine call is made on
\* a null handle
C33_HandleNeverNull ==
  [][/\ dbLife' = "alive" =>
          /\ isOpen'
          /\ CheckConnectionThrows' = "none"
          /\ CtorOpenCheck' = "none"
     /\ lastOp'.op = "ctor" => raised' # "SqliteTransactionException"
     /\ raised' # "crash"
     /\ dbLife = "alive" => mConnection' = mConnection]_vars

\* a first open failed, the second returned a SqliteDb, and a command on it
\* failed in the engine: the object is still open
C33_Witness ==
  /\ Len(conns) >= 2
  /\ conns[1].rc = "SQLITE_CANTOPEN" /\ conns[2].rc = "SQLITE_OK"
  /\ dbLife = "alive" /\ isOpen
  /\ Len(log) >= 1 /\ log[Len(log)].rc # "SQLITE_OK"
  /\ raised = "SqliteDbException"

====
